---------------------------- MODULE Spec2Model ----------------------------
(***************************************************************************)
(* A model of the HTTP client of Jitsusama/http-client-js.                 *)
(*                                                                         *)
(* The repository holds seven variants of the client class.  Four sit on  *)
(* the got library (one got call per _do, got makes the attempts), three   *)
(* on fetch (one attempt, one abort timer):                                *)
(*                                                                         *)
(*   gotBase    src/unnamed/part_003:128-268  (BaseClient: part_003:1-126) *)
(*   gotMain    src/src/main.js:1-185         (shared.js: main.js:187-245) *)
(*   gotPart2   src/unnamed/part_002:1-214                                 *)
(*   gotIndex   src/src/index.js:1-203                                     *)
(*   fetchBase  src/src/index.js:205-273      (BaseClient: part_003:1-126) *)
(*   fetch2     src/unnamed/part_000:70-163   (shared.js: main.js:187-245) *)
(*   fetch1     src/unnamed/part_000:1-68                                  *)
(*                                                                         *)
(* One call of one client is followed from the verb method to the value    *)
(* it returns or the error it throws.  Texts are sequences of one-letter   *)
(* strings, so that JSON.parse is computed and not assumed.                *)
(***************************************************************************)
EXTENDS Integers, Sequences, FiniteSets, TLC

(***************************************************************************)
(* Bounds.                                                                 *)
(***************************************************************************)
\* The largest retry count a client is constructed with.
MaxRetry == 2

(***************************************************************************)
(* JSON.parse: a strict recursive-descent parser over the letters of a     *)
(* text (objects with string keys, arrays, strings without escapes,        *)
(* one-digit numbers; the texts of the model use nothing else).            *)
(***************************************************************************)
Quote == "\""

JsonWhitespace == {" ", "\n", "\t"}

JsonDigits == {"0", "1", "2", "3", "4", "5", "6", "7", "8", "9"}

\* A value no parse produced.
NoValue == [t |-> "none"]

\* The object literal {} of the source.
EmptyObject == [t |-> "obj", v |-> {}]

ParseFailed == [ok |-> FALSE, val |-> NoValue, next |-> 0]

ParseOk(val, next) == [ok |-> TRUE, val |-> val, next |-> next]

\* The value of a set of one element: Only({F(x) : x \in {e}}) is F(e)
\* with e evaluated once.
Only(S) == CHOOSE x \in S : TRUE

\* The position of the first letter from i on that is no whitespace, or
\* Len(s) + 1.
SkipWs(s, i) ==
  IF \E j \in i..Len(s) : s[j] \notin JsonWhitespace
  THEN CHOOSE j \in i..Len(s) :
         /\ s[j] \notin JsonWhitespace
         /\ \A k \in i..(j - 1) : s[k] \in JsonWhitespace
  ELSE Len(s) + 1

\* The position of the first quote from i on, or Len(s) + 1.
ClosingQuote(s, i) ==
  IF \E j \in i..Len(s) : s[j] = Quote
  THEN CHOOSE j \in i..Len(s) :
         s[j] = Quote /\ \A k \in i..(j - 1) : s[k] # Quote
  ELSE Len(s) + 1

\* The string whose opening quote ends just before position i.
StringTo(s, i, close) ==
  IF close > Len(s) THEN ParseFailed
  ELSE ParseOk([t |-> "str", v |-> SubSeq(s, i, close - 1)], close + 1)

ParseString(s, i) ==
  Only({StringTo(s, i, close) : close \in {ClosingQuote(s, i)}})

\* An object's members with key k set to v (a repeated key keeps the last).
PutMember(members, k, v) ==
  {m \in members : m[1] # k} \cup {<<k, v>>}

RECURSIVE ParseValue(_, _)
RECURSIVE ValueAt(_, _)
RECURSIVE ParseMembers(_, _, _)
RECURSIVE MemberAt(_, _, _)
RECURSIVE MemberAfterKey(_, _, _)
RECURSIVE MemberAfterValue(_, _, _, _)
RECURSIVE MemberEnd(_, _, _)
RECURSIVE ParseElements(_, _, _)
RECURSIVE ElementAfterValue(_, _, _)
RECURSIVE ElementEnd(_, _, _)
\* The value that starts at position i0, whitespace skipped.
ParseValue(s, i0) == Only({ValueAt(s, i) : i \in {SkipWs(s, i0)}})

ValueAt(s, i) ==
  IF i > Len(s) THEN ParseFailed
  ELSE IF s[i] = "{" THEN
    Only({IF j <= Len(s) /\ s[j] = "}" THEN ParseOk(EmptyObject, j + 1)
          ELSE ParseMembers(s, j, {}) : j \in {SkipWs(s, i + 1)}})
  ELSE IF s[i] = "[" THEN
    Only({IF j <= Len(s) /\ s[j] = "]"
          THEN ParseOk([t |-> "arr", v |-> <<>>], j + 1)
          ELSE ParseElements(s, j, <<>>) : j \in {SkipWs(s, i + 1)}})
  ELSE IF s[i] = Quote THEN ParseString(s, i + 1)
  ELSE IF s[i] \in JsonDigits THEN ParseOk([t |-> "num", v |-> s[i]], i + 1)
  ELSE ParseFailed

\* The members of an object from position i0 on, after those of acc.
ParseMembers(s, i0, acc) ==
  Only({MemberAt(s, i, acc) : i \in {SkipWs(s, i0)}})

MemberAt(s, i, acc) ==
  IF i > Len(s) \/ s[i] # Quote THEN ParseFailed
  ELSE Only({MemberAfterKey(s, k, acc) : k \in {ParseString(s, i + 1)}})

MemberAfterKey(s, k, acc) ==
  IF ~k.ok THEN ParseFailed
  ELSE Only({IF c > Len(s) \/ s[c] # ":" THEN ParseFailed
             ELSE MemberAfterValue(s, k, c + 1, acc) :
             c \in {SkipWs(s, k.next)}})

MemberAfterValue(s, k, i, acc) ==
  Only({IF ~v.ok THEN ParseFailed
        ELSE MemberEnd(s, v.next, PutMember(acc, k.val.v, v.val)) :
        v \in {ParseValue(s, i)}})

MemberEnd(s, i, members) ==
  Only({IF e > Len(s) THEN ParseFailed
        ELSE IF s[e] = "}" THEN ParseOk([t |-> "obj", v |-> members], e + 1)
        ELSE IF s[e] = "," THEN ParseMembers(s, e + 1, members)
        ELSE ParseFailed : e \in {SkipWs(s, i)}})

\* The elements of an array from position i0 on, after those of acc.
ParseElements(s, i0, acc) ==
  Only({ElementAfterValue(s, v, acc) : v \in {ParseValue(s, i0)}})

ElementAfterValue(s, v, acc) ==
  IF ~v.ok THEN ParseFailed
  ELSE ElementEnd(s, v.next, Append(acc, v.val))

ElementEnd(s, i, elements) ==
  Only({IF e > Len(s) THEN ParseFailed
        ELSE IF s[e] = "]" THEN ParseOk([t |-> "arr", v |-> elements], e + 1)
        ELSE IF s[e] = "," THEN ParseElements(s, e + 1, elements)
        ELSE ParseFailed : e \in {SkipWs(s, i)}})

\* JSON.parse(text): the value, or ok = FALSE where JSON.parse throws a
\* SyntaxError (anything left over after the value is an error).
JSONparse(text) ==
  Only({IF r.ok /\ SkipWs(text, r.next) > Len(text)
        THEN [ok |-> TRUE, val |-> r.val]
        ELSE [ok |-> FALSE, val |-> NoValue] : r \in {ParseValue(text, 1)}})

(***************************************************************************)
(* The response body texts of the model: those of the repository's tests   *)
(* (node.test.js, browser.test.js), shortened where a shorter text takes   *)
(* the same path through JSON.parse, and a whitespace-only text.           *)
(***************************************************************************)
TextEmpty == <<>>

TextSpace == <<" ">>

\* {"a":"b"}
TextObject == <<"{", Quote, "a", Quote, ":", Quote, "b", Quote, "}">>

\* {"errorMessage": "m"}
TextErrorMessage ==
  <<"{", Quote, "e", "r", "r", "o", "r", "M", "e", "s", "s", "a", "g", "e",
    Quote, ":", " ", Quote, "m", Quote, "}">>

\* {
TextOpenBrace == <<"{">>

\* [{]
TextCrossed == <<"[", "{", "]">>

\* {k: "v"}
TextBareKey == <<"{", "k", ":", " ", Quote, "v", Quote, "}">>

\* {"a"}
TextKeyOnly == <<"{", Quote, "a", Quote, "}">>

\* {"a":"b" "c":"d"}
TextNoComma ==
  <<"{", Quote, "a", Quote, ":", Quote, "b", Quote, " ",
    Quote, "c", Quote, ":", Quote, "d", Quote, "}">>

\* hello
TextHello == <<"h", "e", "l", "l", "o">>

ValidJsonTexts == {TextObject, TextErrorMessage}

InvalidJsonTexts ==
  {TextOpenBrace, TextCrossed, TextBareKey, TextKeyOnly, TextNoComma, TextHello}

Texts == {TextEmpty, TextSpace} \cup ValidJsonTexts \cup InvalidJsonTexts

(***************************************************************************)
(* JavaScript values and completions.                                      *)
(***************************************************************************)
\* A string-or-undefined argument, as error?.response?.body is.
Str(text) == [defined |-> TRUE, text |-> text]

Undefined == [defined |-> FALSE, text |-> <<>>]

\* How a function ends: it returns a value, throws one of the ClientError
\* classes of errors.js (kind), or throws something else (raw).
\* The message field each class of lib/errors.js declares; the constructors
\* take no argument, so this is the message of every instance.
ErrorClassMessage(kind) ==
  CASE kind = "Conflict" -> "state conflict"
    [] kind = "Failure" -> "remote failure"
    [] kind = "Forbidden" -> "credentials lack proper authorization"
    [] kind = "InvalidRequest" -> "request was rejected"
    [] kind = "InvalidResponse" -> "corrupt response"
    [] kind = "NotFound" -> "resource does not exist"
    [] kind = "Timeout" -> "remote timeout"
    [] kind = "Unauthorized" -> "invalid credentials"
    [] OTHER -> ""

NoMessage == [t |-> "none", v |-> ""]

Return(v) ==
  [type |-> "value", kind |-> "none", value |-> v, message |-> NoMessage]

\* throw new errors.<kind>()
Throw(kind) ==
  [type |-> "error", kind |-> kind, value |-> NoValue,
   message |-> [t |-> "message", v |-> ErrorClassMessage(kind)]]

ThrowRaw(name) ==
  [type |-> "raw", kind |-> name, value |-> NoValue,
   message |-> [t |-> "message", v |-> name]]

NoResult ==
  [type |-> "none", kind |-> "none", value |-> NoValue, message |-> NoMessage]

\* The classes errors.js exports besides ClientError (lib/errors.js:60-70).
ClientErrorKinds ==
  {"InvalidRequest", "Unauthorized", "Forbidden", "NotFound", "Conflict",
   "Failure", "Timeout", "InvalidResponse"}

\* JSON.parse(json) as a completion; undefined is no JSON text.
JSON_parse(json) ==
  IF ~json.defined THEN ThrowRaw("SyntaxError")
  ELSE Only({IF r.ok THEN Return(r.val) ELSE ThrowRaw("SyntaxError") :
             r \in {JSONparse(json.text)}})

\* The member name errorMessage.
ErrorMessageKey ==
  <<"e", "r", "r", "o", "r", "M", "e", "s", "s", "a", "g", "e">>

\* value?.errorMessage: the member, or NoValue for undefined.
ErrorMessageOf(value) ==
  IF value.t = "obj" /\ \E m \in value.v : m[1] = ErrorMessageKey
  THEN (CHOOSE m \in value.v : m[1] = ErrorMessageKey)[2]
  ELSE NoValue

\* Whether a || b takes a.
Truthy(value) ==
  CASE value.t = "none" -> FALSE
    [] value.t = "str" -> value.v # <<>>
    [] value.t = "num" -> value.v # "0"
    [] OTHER -> TRUE

\* error?.message, kept apart from any text of the body.
MessageOf(error) == [t |-> "message", v |-> error.kind]

(***************************************************************************)
(* Outcomes of one transport attempt (what got or fetch hands back).       *)
(***************************************************************************)
SuccessStatuses == {200, 204}

\* The statuses of the status-code tests and two further unmapped ones.
FailureStatuses == {400, 401, 403, 404, 409, 418, 500, 502, 504, 600}

\* DNS failure, refused connection, send timeout, response timeout.
TransportCauses == {"dns", "connect", "requestTimeout", "responseTimeout"}

NoOutcome == [kind |-> "none", status |-> 0, text |-> <<>>, cause |-> "none"]

Success(status, text) ==
  [kind |-> "Success", status |-> status, text |-> text, cause |-> "none"]

HttpFailure(status, text) ==
  [kind |-> "HttpFailure", status |-> status, text |-> text, cause |-> "none"]

TransportFailure(cause) ==
  [kind |-> "TransportFailure", status |-> 0, text |-> <<>>, cause |-> cause]

\* A rejection that is neither an HTTP-status error nor a request error.
OtherError == [kind |-> "OtherError", status |-> 0, text |-> <<>>, cause |-> "other"]

\* A 204 reply carries no body.
SuccessOutcomes ==
  {Success(200, t) : t \in Texts} \cup {Success(204, TextEmpty)}

HttpFailureOutcomes ==
  {HttpFailure(st, t) : st \in FailureStatuses, t \in Texts}

TransportFailureOutcomes == {TransportFailure(c) : c \in TransportCauses}

\* response.ok of fetch: the status is in 200..299.
ResponseOk(status) == status >= 200 /\ status <= 299

\* error?.response?.body: only an HTTP error has a response.
ResponseBody(error) ==
  IF error.kind = "HttpFailure" THEN Str(error.text) ELSE Undefined

(***************************************************************************)
(* Response Decoder: the parseJson of each variant.                        *)
(***************************************************************************)
\* BaseClient._parseJson without its try: the SyntaxError leaves as it is.
BaseClient_parseJson_NoCatch(json) == JSON_parse(json)

\* BaseClient._parseJson (base.js): a SyntaxError becomes InvalidResponse.
BaseClient_parseJson(json) ==
  IF JSON_parse(json).type = "value" THEN JSON_parse(json)
  ELSE Throw("InvalidResponse")

\* Client._parseJson of the got client over BaseClient: logs and rethrows.
gotBase_parseJson(json) == BaseClient_parseJson(json)

\* Client._parseJson of the fetch client over BaseClient: logs and rethrows.
fetchBase_parseJson(json) == BaseClient_parseJson(json)

\* shared.parseJson(log, baseUri, json) (shared.js).
shared_parseJson(json) ==
  IF JSON_parse(json).type = "value" THEN JSON_parse(json)
  ELSE Throw("InvalidResponse")

\* parseJson(log, json, baseUri) of index.js and part_002.  The catch block
\* calls log.error first: where log is no logger (logIsLogger = FALSE) that
\* call throws a TypeError and InvalidResponse is never constructed.
index_parseJson(logIsLogger, json) ==
  IF JSON_parse(json).type = "value" THEN JSON_parse(json)
  ELSE IF logIsLogger THEN Throw("InvalidResponse")
  ELSE ThrowRaw("TypeError")

part2_parseJson(logIsLogger, json) ==
  IF JSON_parse(json).type = "value" THEN JSON_parse(json)
  ELSE IF logIsLogger THEN Throw("InvalidResponse")
  ELSE ThrowRaw("TypeError")

(***************************************************************************)
(* Error Translator: status code to error class, per variant.              *)
(***************************************************************************)
\* BaseClient._translateStatusCode without its default case: an unlisted
\* status gives undefined, and _do throws that.
BaseClient_translateStatusCode_NoDefault(statusCode) ==
  CASE statusCode = 400 -> "InvalidRequest"
    [] statusCode = 401 -> "Unauthorized"
    [] statusCode = 403 -> "Forbidden"
    [] statusCode = 404 -> "NotFound"
    [] statusCode = 409 -> "Conflict"
    [] statusCode = 502 -> "Failure"
    [] statusCode = 504 -> "Timeout"
    [] OTHER -> "undefined"

\* BaseClient._translateStatusCode (base.js).
BaseClient_translateStatusCode(statusCode) ==
  CASE statusCode = 400 -> "InvalidRequest"
    [] statusCode = 401 -> "Unauthorized"
    [] statusCode = 403 -> "Forbidden"
    [] statusCode = 404 -> "NotFound"
    [] statusCode = 409 -> "Conflict"
    [] statusCode = 502 -> "Failure"
    [] statusCode = 504 -> "Timeout"
    [] OTHER -> "Failure"

\* shared.translateStatusCode (shared.js).
shared_translateStatusCode(statusCode) ==
  CASE statusCode = 400 -> "InvalidRequest"
    [] statusCode = 401 -> "Unauthorized"
    [] statusCode = 403 -> "Forbidden"
    [] statusCode = 404 -> "NotFound"
    [] statusCode = 409 -> "Conflict"
    [] statusCode = 502 -> "Failure"
    [] statusCode = 504 -> "Timeout"
    [] OTHER -> "Failure"

\* The switch of translateError in index.js: no case for 401 or 403.
index_translateStatusCode(statusCode) ==
  CASE statusCode = 400 -> "InvalidRequest"
    [] statusCode = 404 -> "NotFound"
    [] statusCode = 409 -> "Conflict"
    [] statusCode = 502 -> "Failure"
    [] statusCode = 504 -> "Timeout"
    [] OTHER -> "Failure"

\* The switch of translateError in part_002.
part2_translateStatusCode(statusCode) ==
  CASE statusCode = 400 -> "InvalidRequest"
    [] statusCode = 401 -> "Unauthorized"
    [] statusCode = 403 -> "Forbidden"
    [] statusCode = 404 -> "NotFound"
    [] statusCode = 409 -> "Conflict"
    [] statusCode = 502 -> "Failure"
    [] statusCode = 504 -> "Timeout"
    [] OTHER -> "Failure"

(***************************************************************************)
(* _extractErrorMessage: the reason that is logged.  Each is a try/catch   *)
(* around parseJson; as a completion, so that what the catch swallows is   *)
(* seen to be swallowed.                                                   *)
(***************************************************************************)
\* responseData?.errorMessage || error?.message
ReasonFrom(responseData, error) ==
  IF Truthy(ErrorMessageOf(responseData)) THEN ErrorMessageOf(responseData)
  ELSE MessageOf(error)

\* Client._extractErrorMessage without its try: what parseJson throws
\* leaves with it.
gotBase_extractErrorMessage_NoCatch(error) ==
  LET responseData == gotBase_parseJson(ResponseBody(error)) IN
  IF responseData.type = "value"
  THEN Return(ReasonFrom(responseData.value, error))
  ELSE responseData

\* Client._extractErrorMessage of the got client over BaseClient.
gotBase_extractErrorMessage(error) ==
  LET responseData == gotBase_parseJson(ResponseBody(error)) IN
  IF responseData.type = "value"
  THEN Return(ReasonFrom(responseData.value, error))
  ELSE Return(MessageOf(error))

\* Client._extractErrorMessage of main.js.
gotMain_extractErrorMessage(error) ==
  LET responseData == shared_parseJson(ResponseBody(error)) IN
  IF responseData.type = "value"
  THEN Return(ReasonFrom(responseData.value, error))
  ELSE Return(MessageOf(error))

\* The origin of the base URI, http://h, which getBaseUri hands on.
BaseUriText == <<"h", "t", "t", "p", ":", "/", "/", "h">>

\* extractErrorMessage(error, baseUri) of index.js calls
\* parseJson(json, baseUri): the body lands in the log parameter and the
\* base URI in the json parameter.
index_extractErrorMessage(error) ==
  LET responseData == index_parseJson(FALSE, Str(BaseUriText)) IN
  IF responseData.type = "value"
  THEN Return(ReasonFrom(responseData.value, error))
  ELSE Return(MessageOf(error))

\* extractErrorMessage(error, baseUri) of part_002: the same call.
part2_extractErrorMessage(error) ==
  LET responseData == part2_parseJson(FALSE, Str(BaseUriText)) IN
  IF responseData.type = "value"
  THEN Return(ReasonFrom(responseData.value, error))
  ELSE Return(MessageOf(error))

(***************************************************************************)
(* translateError of the got variants: what _do throws for a rejected got  *)
(* call.  got.HTTPError is the HttpFailure outcome, any other              *)
(* got.RequestError the TransportFailure outcome; the third branch hands   *)
(* back the error it was given.                                            *)
(***************************************************************************)
\* Client._translateError without its got.RequestError branch: a transport
\* failure falls to the last branch.
gotBase_translateError_NoRequestError(error) ==
  LET reason == gotBase_extractErrorMessage(error) IN
  IF reason.type # "value" THEN reason
  ELSE IF error.kind = "HttpFailure"
       THEN Throw(BaseClient_translateStatusCode(error.status))
  ELSE ThrowRaw("Error")

\* Client._translateError of the got client over BaseClient.
gotBase_translateError(error) ==
  LET reason == gotBase_extractErrorMessage(error) IN
  IF reason.type # "value" THEN reason
  ELSE IF error.kind = "HttpFailure"
       THEN Throw(BaseClient_translateStatusCode(error.status))
  ELSE IF error.kind = "TransportFailure" THEN Throw("Timeout")
  ELSE ThrowRaw("Error")

\* Client._translateError of main.js.
gotMain_translateError(error) ==
  LET reason == gotMain_extractErrorMessage(error) IN
  IF reason.type # "value" THEN reason
  ELSE IF error.kind = "HttpFailure"
       THEN Throw(shared_translateStatusCode(error.status))
  ELSE IF error.kind = "TransportFailure" THEN Throw("Timeout")
  ELSE ThrowRaw("Error")

\* translateError(log, error) of index.js.
index_translateError(error) ==
  LET reason == index_extractErrorMessage(error) IN
  IF reason.type # "value" THEN reason
  ELSE IF error.kind = "HttpFailure"
       THEN Throw(index_translateStatusCode(error.status))
  ELSE IF error.kind = "TransportFailure" THEN Throw("Timeout")
  ELSE ThrowRaw("Error")

\* translateError(log, error) of part_002.
part2_translateError(error) ==
  LET reason == part2_extractErrorMessage(error) IN
  IF reason.type # "value" THEN reason
  ELSE IF error.kind = "HttpFailure"
       THEN Throw(part2_translateStatusCode(error.status))
  ELSE IF error.kind = "TransportFailure" THEN Throw("Timeout")
  ELSE ThrowRaw("Error")

(***************************************************************************)
(* The two ends of _do, per variant: what it throws once the transport     *)
(* has failed, and what it returns once the body text is there.            *)
(***************************************************************************)
Variants ==
  {"gotBase", "gotMain", "gotPart2", "gotIndex", "fetchBase", "fetch2", "fetch1"}

GotVariants == {"gotBase", "gotMain", "gotPart2", "gotIndex"}

FetchVariants == {"fetchBase", "fetch2", "fetch1"}

\* The fetch client over BaseClient without its catch block: what fetch
\* or response.text() rejected with leaves _do as it is.
fetchBase_doThrow_NoCatch(error) ==
  IF error.kind = "HttpFailure"
  THEN Throw(BaseClient_translateStatusCode(error.status))
  ELSE IF error.cause = "abort" THEN ThrowRaw("AbortError")
  ELSE ThrowRaw("TypeError")

\* The fetch client over BaseClient: the catch block throws Timeout for
\* whatever was thrown in the try block; a response that is not ok has its
\* status translated.
fetchBase_doThrow(error) ==
  IF error.kind = "HttpFailure"
  THEN Throw(BaseClient_translateStatusCode(error.status))
  ELSE Throw("Timeout")

\* The second fetch client of part_000: the same with shared.js.
fetch2_doThrow(error) ==
  IF error.kind = "HttpFailure"
  THEN Throw(shared_translateStatusCode(error.status))
  ELSE Throw("Timeout")

\* The first fetch client of part_000 has no try: the rejection of fetch
\* or of response.json() leaves _do as it is.
fetch1_doThrow(error) ==
  IF error.cause = "abort" THEN ThrowRaw("AbortError") ELSE ThrowRaw("TypeError")

DoThrow(v, error) ==
  CASE v = "gotBase" -> gotBase_translateError(error)
    [] v = "gotMain" -> gotMain_translateError(error)
    [] v = "gotPart2" -> part2_translateError(error)
    [] v = "gotIndex" -> index_translateError(error)
    [] v = "fetchBase" -> fetchBase_doThrow(error)
    [] v = "fetch2" -> fetch2_doThrow(error)
    [] v = "fetch1" -> fetch1_doThrow(error)

\* JSON.parse calls made on the way to the throw: one in each
\* extractErrorMessage, none in the fetch clients.
ParsesOfThrow(v) == IF v \in GotVariants THEN 1 ELSE 0

\* return this._parseJson(text), without the test of text.
gotBase_doReturn_AlwaysParse(text) ==
  [completion |-> gotBase_parseJson(Str(text)), parsed |-> 1]

\* return text ? this._parseJson(text) : {}  (the completion, and the
\* number of JSON.parse calls made).
gotBase_doReturn(text) ==
  IF text # <<>>
  THEN [completion |-> gotBase_parseJson(Str(text)), parsed |-> 1]
  ELSE [completion |-> Return(EmptyObject), parsed |-> 0]

gotMain_doReturn(text) ==
  IF text # <<>>
  THEN [completion |-> shared_parseJson(Str(text)), parsed |-> 1]
  ELSE [completion |-> Return(EmptyObject), parsed |-> 0]

part2_doReturn(text) ==
  IF text # <<>>
  THEN [completion |-> part2_parseJson(TRUE, Str(text)), parsed |-> 1]
  ELSE [completion |-> Return(EmptyObject), parsed |-> 0]

index_doReturn(text) ==
  IF text # <<>>
  THEN [completion |-> index_parseJson(TRUE, Str(text)), parsed |-> 1]
  ELSE [completion |-> Return(EmptyObject), parsed |-> 0]

fetchBase_doReturn(text) ==
  IF text # <<>>
  THEN [completion |-> fetchBase_parseJson(Str(text)), parsed |-> 1]
  ELSE [completion |-> Return(EmptyObject), parsed |-> 0]

fetch2_doReturn(text) ==
  IF text # <<>>
  THEN [completion |-> shared_parseJson(Str(text)), parsed |-> 1]
  ELSE [completion |-> Return(EmptyObject), parsed |-> 0]

\* return await response.json(): the body is parsed whatever it is.
fetch1_doReturn(text) ==
  [completion |-> JSON_parse(Str(text)), parsed |-> 1]

DoReturn(v, text) ==
  CASE v = "gotBase" -> gotBase_doReturn(text)
    [] v = "gotMain" -> gotMain_doReturn(text)
    [] v = "gotPart2" -> part2_doReturn(text)
    [] v = "gotIndex" -> index_doReturn(text)
    [] v = "fetchBase" -> fetchBase_doReturn(text)
    [] v = "fetch2" -> fetch2_doReturn(text)
    [] v = "fetch1" -> fetch1_doReturn(text)

\* Where _do goes once fetch has the whole response: the first fetch client
\* never looks at the status, the others throw unless response.ok.
AfterBody(v, status) ==
  IF v = "fetch1" \/ ResponseOk(status) THEN "Decoding" ELSE "Translating"

\* _do without clearTimeout(timeout): the timer stays as it is.
AfterFinally_NoClear(v, t) == t

\* finally { clearTimeout(timeout) }: the first fetch client keeps no
\* handle of its timer and never clears it.
AfterFinally(v, t) ==
  IF v \in {"fetchBase", "fetch2"} /\ t.state = "armed"
  THEN [t EXCEPT !.state = "cleared"]
  ELSE t

(***************************************************************************)
(* The logger.  The client of index.js takes its logger from the caller    *)
(* (options.logger) and calls it unguarded: logger.trace in the            *)
(* beforeRequest and afterResponse hooks, log.error in translateError and  *)
(* in the catch block of parseJson.  The other clients make their own      *)
(* logger.                                                                 *)
(***************************************************************************)
\* What a logger does: nothing; or its error method throws or is missing;
\* or its trace method throws or is missing.
Loggers == {"silent", "error throws", "trace throws"}

SuppliedLoggerVariants == {"gotIndex"}

\* translateError(log, error) of index.js with the logger log: every
\* branch calls log.error before it returns, and what that call throws
\* leaves translateError and _do.
index_translateErrorWith(log, error) ==
  IF log = "error throws" THEN ThrowRaw("TypeError")
  ELSE index_translateError(error)

\* return text ? parseJson(this.logger, text, baseUri) : {}
index_doReturnWith(log, text) ==
  IF text # <<>>
  THEN [completion |-> index_parseJson(log # "error throws", Str(text)),
        parsed |-> 1]
  ELSE [completion |-> Return(EmptyObject), parsed |-> 0]

DoThrowWith(v, log, error) ==
  IF v \in SuppliedLoggerVariants THEN index_translateErrorWith(log, error)
  ELSE DoThrow(v, error)

DoReturnWith(v, log, text) ==
  IF v \in SuppliedLoggerVariants THEN index_doReturnWith(log, text)
  ELSE DoReturn(v, text)

\* How an attempt ends when the beforeRequest hook throws: got rejects
\* with what the hook threw, as it is or wrapped in a got.RequestError.
HookFailures == {OtherError, TransportFailure("hook")}

(***************************************************************************)
(* got's retry decision.  The got clients pass their retry count to        *)
(* got.extend as a bare number: got takes it as the limit and keeps its    *)
(* defaults for the methods, status codes and error codes it retries.      *)
(***************************************************************************)
GotRetryMethods == {"get", "put"}

GotRetryStatusCodes == {408, 413, 429, 500, 502, 503, 504, 521, 522, 524}

\* Whether got starts another attempt after outcome o, with retryCount
\* retries already made.
GotRetries(method, o, retryCount, limit) ==
  /\ retryCount < limit
  /\ method \in GotRetryMethods
  /\ \/ o.kind = "TransportFailure"
     \/ o.kind = "HttpFailure" /\ o.status \in GotRetryStatusCodes

(***************************************************************************)
(* State: one client and one call on it.                                   *)
(***************************************************************************)
VARIABLES
  variant,     \* which client class was constructed
  config,      \* this.retry and this.timeout (what got.extend was given)
  abortAfter,  \* the delay of the abort timer of a fetch client
  req,         \* the arguments _do was called with
  pc,          \* where the call is
  attempts,    \* transport attempts started
  outcome,     \* how the last attempt ended
  response,    \* status of the response fetch resolved with, 0 before
  timer,       \* the abort timer of a fetch client
  result,      \* what the call returned or threw
  parses,      \* JSON.parse calls made by the call
  logger,      \* what the client's logger does when called
  calls,       \* further calls on the client, by call
  remote       \* the reply of a remote whose state does not change

vars ==
  <<variant, config, abortAfter, req, pc, attempts, outcome, response,
    timer, result, parses, logger, calls, remote>>

\* requestTimeout and responseTimeout a client is constructed with.
RequestTimeouts == {0, 1}

ResponseTimeouts == {0, 2}

Methods == {"get", "post", "put"}

NoRequest == [method |-> "none", query |-> "undefined", body |-> "undefined"]

NoTimer == [state |-> "unset", delay |-> 0]

\* The baseUri and userAgent options a client is constructed with (the
\* tests' base URI, the default user agent).
BaseUris == {"http://host"}

UserAgents == {"http-client"}

\* The fields the constructor of variant v sets from its options.  The fetch
\* clients of part_000 read baseUri and responseTimeout only.
Construct(v, retry, requestTimeout, responseTimeout) ==
  IF v \in {"fetch1", "fetch2"}
  THEN [baseUri |-> CHOOSE b \in BaseUris : TRUE, userAgent |-> "undefined",
        retry |-> 0, requestTimeout |-> 0, responseTimeout |-> responseTimeout]
  ELSE [baseUri |-> CHOOSE b \in BaseUris : TRUE,
        userAgent |-> CHOOSE u \in UserAgents : TRUE,
        retry |-> retry, requestTimeout |-> requestTimeout,
        responseTimeout |-> responseTimeout]

\* this._abortAfter = this.timeout.request || this.timeout.response: the
\* request timeout wherever one is set.
AbortAfter_RequestFirst(v, c) ==
  CASE v = "fetchBase" ->
         IF c.requestTimeout # 0 THEN c.requestTimeout ELSE c.responseTimeout
    [] v \in {"fetch1", "fetch2"} -> c.responseTimeout
    [] OTHER -> 0

\* this._abortAfter = this.timeout.response || this.timeout.request, and
\* this.timeout = responseTimeout in part_000; the got clients have none.
AbortAfter(v, c) ==
  CASE v = "fetchBase" ->
         IF c.responseTimeout # 0 THEN c.responseTimeout ELSE c.requestTimeout
    [] v \in {"fetch1", "fetch2"} -> c.responseTimeout
    [] OTHER -> 0

\* The calls that may be in flight at once.
CallIds == {1, 2}

NoCall ==
  [pc |-> "Idle", method |-> "none", attempts |-> 0, outcome |-> NoOutcome,
   response |-> 0, timer |-> NoTimer, result |-> NoResult]

\* The default of the logger option: { error: () => {}, trace: () => {} }.
DefaultLogger == "silent"

\* new Client(options)
Constructed ==
  /\ variant \in Variants
  /\ \E retry \in 0..MaxRetry, rq \in RequestTimeouts, rs \in ResponseTimeouts :
       config = Construct(variant, retry, rq, rs)
  /\ abortAfter = AbortAfter(variant, config)

\* No call has been made.
NoCallYet ==
  /\ req = NoRequest
  /\ pc = "Idle"
  /\ attempts = 0
  /\ outcome = NoOutcome
  /\ response = 0
  /\ timer = NoTimer
  /\ result = NoResult
  /\ parses = 0
  /\ calls = [i \in CallIds |-> NoCall]

Init ==
  /\ Constructed
  /\ logger = DefaultLogger
  /\ NoCallYet
  /\ remote = NoOutcome

(***************************************************************************)
(* The verb methods and the start of _do, up to its first await.           *)
(***************************************************************************)
\* The part_000 clients define get and post only.
HasPut(v) == v \notin {"fetch1", "fetch2"}

\* _do(method, path, query, body) up to the first await: a fetch client
\* sets its abort timer and calls fetch, a got client calls got.
DoEnter(method, query, body) ==
  /\ pc = "Idle"
  /\ req' = [method |-> method, query |-> query, body |-> body]
  /\ pc' = "Sending"
  /\ attempts' = 1
  /\ timer' = IF variant \in FetchVariants
              THEN [state |-> "armed", delay |-> abortAfter]
              ELSE timer
  /\ UNCHANGED <<variant, config, logger, calls, remote, abortAfter, outcome, response, result, parses>>

\* get(path, query): this._do("get", path, query)
Get == \E query \in {"undefined", "query"} : DoEnter("get", query, "undefined")

\* post(path, body) handing its body to _do in the query slot.
Post_BodyAsQuery ==
  \E body \in {"undefined", "body"} : DoEnter("post", body, "undefined")

\* post(path, body): this._do("post", path, undefined, body)
Post == \E body \in {"undefined", "body"} : DoEnter("post", "undefined", body)

\* put(path, body): this._do("put", path, undefined, body)
Put ==
  /\ HasPut(variant)
  /\ \E body \in {"undefined", "body"} : DoEnter("put", "undefined", body)

(***************************************************************************)
(* The got clients: got makes the attempts and settles its promise.        *)
(***************************************************************************)
GotOutcomes ==
  SuccessOutcomes \cup HttpFailureOutcomes \cup TransportFailureOutcomes
    \cup {OtherError}

\* An attempt of got ends with outcome o; got retries or settles.
GotAttemptEndsWith(o) ==
  /\ variant \in GotVariants
  /\ pc = "Sending"
  /\ outcome' = o
  /\ pc' = IF GotRetries(req.method, o, attempts - 1, config.retry)
           THEN "Retrying"
           ELSE IF o.kind = "Success" THEN "Decoding" ELSE "Translating"
  /\ UNCHANGED <<variant, config, logger, calls, remote, abortAfter, req, attempts, response, timer,
                 result, parses>>

\* The beforeRequest hook (logRequestAttempts) runs first.
GotAttemptEnds ==
  \E o \in IF logger = "trace throws" THEN HookFailures ELSE GotOutcomes :
    GotAttemptEndsWith(o)

\* timeout: { request: requestTimeout, ... }: got's request timer runs from
\* the start of the attempt and rejects it with a TimeoutError.
GotDeadline ==
  /\ config.requestTimeout # 0
  /\ GotAttemptEndsWith(TransportFailure("requestTimeout"))

\* got starts the next attempt and counts the retry down on the client.
GotRetry_CountsDown ==
  /\ variant \in GotVariants
  /\ pc = "Retrying"
  /\ pc' = "Sending"
  /\ attempts' = attempts + 1
  /\ config' = [config EXCEPT !.retry = @ - 1]
  /\ UNCHANGED <<variant, logger, calls, remote, abortAfter, req, outcome, response,
                 timer, result, parses>>

\* got starts the next attempt while the one before is still in flight.
GotRetry_Overlapping ==
  /\ variant \in GotVariants
  /\ pc \in {"Sending", "Retrying"}
  /\ attempts <= config.retry
  /\ pc' = "Sending"
  /\ attempts' = attempts + 1
  /\ UNCHANGED <<variant, config, logger, calls, remote, abortAfter, req, outcome, response, timer,
                 result, parses>>

\* got starts the next attempt.
GotRetry ==
  /\ variant \in GotVariants
  /\ pc = "Retrying"
  /\ pc' = "Sending"
  /\ attempts' = attempts + 1
  /\ UNCHANGED <<variant, config, logger, calls, remote, abortAfter, req, outcome, response, timer,
                 result, parses>>

(***************************************************************************)
(* The fetch clients: response = await fetch(uri, options), then           *)
(* text = await response.text(), with the abort timer running.             *)
(***************************************************************************)
\* fetch resolves: the headers of a response are there.
FetchResolves ==
  /\ variant \in FetchVariants
  /\ pc = "Sending"
  /\ \E status \in SuccessStatuses \cup FailureStatuses : response' = status
  /\ pc' = "Reading"
  /\ UNCHANGED <<variant, config, logger, calls, remote, abortAfter, req, attempts, outcome, timer,
                 result, parses>>

\* fetch rejects: no response (DNS, connection), or another error.
FetchRejects ==
  /\ variant \in FetchVariants
  /\ pc = "Sending"
  /\ \E o \in {TransportFailure("dns"), TransportFailure("connect"), OtherError} :
       outcome' = o
  /\ pc' = "Translating"
  /\ UNCHANGED <<variant, config, logger, calls, remote, abortAfter, req, attempts, response, timer,
                 result, parses>>

\* response.text() (response.json() in the first client) has the body.
BodyArrives ==
  /\ variant \in FetchVariants
  /\ pc = "Reading"
  /\ \E text \in Texts :
       /\ response = 204 => text = TextEmpty
       /\ outcome' = IF ResponseOk(response) THEN Success(response, text)
                     ELSE HttpFailure(response, text)
  /\ pc' = AfterBody(variant, response)
  /\ UNCHANGED <<variant, config, logger, calls, remote, abortAfter, req, attempts, response, timer,
                 result, parses>>

\* Reading the body fails (the connection breaks).
BodyFails ==
  /\ variant \in FetchVariants
  /\ pc = "Reading"
  /\ outcome' = TransportFailure("read")
  /\ pc' = "Translating"
  /\ UNCHANGED <<variant, config, logger, calls, remote, abortAfter, req, attempts, response, timer,
                 result, parses>>

\* The abort timer fires and controller.abort() rejects nothing: the
\* pending fetch or body read goes on.
TimerFires_NoAbort ==
  /\ timer.state = "armed"
  /\ pc \in {"Sending", "Reading", "Done", "Failed"}
  /\ timer' = [timer EXCEPT !.state = "fired"]
  /\ UNCHANGED <<variant, config, logger, calls, remote, abortAfter, req, pc, attempts, outcome,
                 response, result, parses>>

\* The abort timer fires and controller.abort() reaches a call that is
\* over as well: it is taken back to its catch block.
TimerFires_AbortsFinished ==
  /\ timer.state = "armed"
  /\ pc \in {"Sending", "Reading", "Done", "Failed"}
  /\ timer' = [timer EXCEPT !.state = "fired"]
  /\ outcome' = TransportFailure("abort")
  /\ pc' = "Translating"
  /\ UNCHANGED <<variant, config, logger, calls, remote, abortAfter, req, attempts, response, result,
                 parses>>

\* The abort timer fires: controller.abort() rejects the pending fetch or
\* body read, and does nothing once the call is over.  A timer callback
\* cannot run between the settling of an awaited promise and the
\* continuation of _do, hence not in Decoding or Translating.
TimerFires ==
  /\ timer.state = "armed"
  /\ pc \in {"Sending", "Reading", "Done", "Failed"}
  /\ timer' = [timer EXCEPT !.state = "fired"]
  /\ IF pc \in {"Sending", "Reading"}
     THEN /\ outcome' = TransportFailure("abort")
          /\ pc' = "Translating"
     ELSE UNCHANGED <<outcome, pc>>
  /\ UNCHANGED <<variant, config, logger, calls, remote, abortAfter, req, attempts, response, result,
                 parses>>

(***************************************************************************)
(* The rest of _do, after the await.                                       *)
(***************************************************************************)
\* The transport failed: _do throws.
Translate ==
  /\ pc = "Translating"
  /\ result' = DoThrowWith(variant, logger, outcome)
  /\ parses' = parses + ParsesOfThrow(variant)
  /\ timer' = AfterFinally(variant, timer)
  /\ pc' = "Failed"
  /\ UNCHANGED <<variant, config, logger, calls, remote, abortAfter, req, attempts, outcome, response>>

\* The body text is there: _do returns it decoded, or throws.
Decode ==
  /\ pc = "Decoding"
  /\ result' = DoReturnWith(variant, logger, outcome.text).completion
  /\ parses' = parses + DoReturnWith(variant, logger, outcome.text).parsed
  /\ timer' = AfterFinally(variant, timer)
  /\ pc' = IF result'.type = "value" THEN "Done" ELSE "Failed"
  /\ UNCHANGED <<variant, config, logger, calls, remote, abortAfter, req, attempts, outcome, response>>

Next ==
  \/ Get
  \/ Post
  \/ Put
  \/ GotAttemptEnds
  \/ GotRetry
  \/ FetchResolves
  \/ FetchRejects
  \/ BodyArrives
  \/ BodyFails
  \/ TimerFires
  \/ Translate
  \/ Decode

Spec == Init /\ [][Next]_vars

\* What the event loop and got see to, whatever the transport does: a timer
\* that is set fires, got's request timer ends an attempt, got's retry
\* delay ends, and _do goes on once the promise it awaits has settled.
\* Nothing makes the caller call, or the transport answer.
Fairness ==
  /\ WF_vars(TimerFires)
  /\ WF_vars(GotDeadline)
  /\ WF_vars(GotRetry)
  /\ WF_vars(Translate)
  /\ WF_vars(Decode)

FairSpec == Spec /\ Fairness

\* A client constructed with any logger the caller may hand it.
LoggerInit ==
  /\ Constructed
  /\ logger \in IF variant \in SuppliedLoggerVariants THEN Loggers
                ELSE {DefaultLogger}
  /\ NoCallYet
  /\ remote = NoOutcome

LoggerSpec == LoggerInit /\ [][Next]_vars

(***************************************************************************)
(* Properties.                                                             *)
(*                                                                         *)
(* fetch1, the first fetch client of part_000, has neither an Error        *)
(* Translator nor a Response Decoder of its own (it returns                *)
(* response.json() whatever the status, and throws what fetch throws).     *)
(* Properties of the translator and the decoder are stated for the six     *)
(* variants that have them; properties that name every variant, or         *)
(* fetch1, include it.                                                     *)
(***************************************************************************)
PipelineVariants == Variants \ {"fetch1"}

Terminal == pc \in {"Done", "Failed"}

\* The status table of the specification, section 4.2.
TableStatuses == {400, 401, 403, 404, 409, 502, 504}

TableKind(status) ==
  CASE status = 400 -> "InvalidRequest"
    [] status = 401 -> "Unauthorized"
    [] status = 403 -> "Forbidden"
    [] status = 404 -> "NotFound"
    [] status = 409 -> "Conflict"
    [] status = 502 -> "Failure"
    [] status = 504 -> "Timeout"
    [] OTHER -> "Failure"

\* The status translation variant v calls.
TranslateStatusCodeOf(v, status) ==
  CASE v \in {"gotBase", "fetchBase"} -> BaseClient_translateStatusCode(status)
    [] v \in {"gotMain", "fetch2"} -> shared_translateStatusCode(status)
    [] v = "gotPart2" -> part2_translateStatusCode(status)
    [] v = "gotIndex" -> index_translateStatusCode(status)
    [] OTHER -> "none"

\* C1: a call whose final outcome is an HTTP failure with status 400, 401,
\* 403, 404, 409, 502 or 504 fails with exactly the kind the status table
\* gives, for every verb and body text.
C1_TableStatusKinds ==
  (/\ variant \in PipelineVariants
   /\ Terminal
   /\ outcome.kind = "HttpFailure"
   /\ outcome.status \in TableStatuses)
  => result = Throw(TableKind(outcome.status))

C3_RetryOnlyAfterTransportFailure ==
  [][(attempts >= 1 /\ attempts' = attempts + 1)
       => outcome.kind = "TransportFailure"]_vars

C5_RetryBudget ==
  /\ attempts <= config.retry + 1
  /\ pc = "Retrying" =>
       /\ outcome.kind = "TransportFailure"
       /\ attempts - 1 < config.retry

\* C6: every failure of a call reaches the caller as one of the eight
\* ClientError kinds; nothing else is thrown.
C6_OnlyClientErrors ==
  pc = "Failed" => (result.type = "error" /\ result.kind \in ClientErrorKinds)

C9_BlankBodyIsEmptyObject ==
  (/\ variant \in PipelineVariants
   /\ Terminal
   /\ outcome.kind = "Success"
   /\ outcome.text \in {TextEmpty, TextSpace})
  => /\ pc = "Done"
     /\ result = Return(EmptyObject)

C11_ReasonIsErrorMessage ==
  (/\ variant \in PipelineVariants
   /\ Terminal
   /\ outcome.kind = "HttpFailure"
   /\ outcome.text = TextErrorMessage)
  => /\ result.type = "error"
     /\ result.message.t = "str"
     /\ result.message.v = ErrorMessageOf(JSONparse(TextErrorMessage).val).v

\* C12: in every terminal state of a call no abort timer the call set is
\* still armed: it was cleared or it has fired.
C12_NoArmedTimerAtEnd == Terminal => timer.state # "armed"

\* The causes that are a deadline running out: got's request and response
\* timeouts, and the abort timer of a fetch client.
DeadlineCauses == {"requestTimeout", "responseTimeout", "abort"}

HasDeadline == variant \in FetchVariants \/ config.requestTimeout # 0

\* C14: every call on a client with a deadline reaches Done or Failed,
\* even when the transport never answers.
C14_CallsEnd == (pc # "Idle" /\ HasDeadline) ~> Terminal

\* C14's case: the transport never answered a get and the call is over,
\* after as many attempts as the retry count allows.
C14_Witness ==
  /\ HasDeadline
  /\ req.method = "get"
  /\ pc = "Failed"
  /\ attempts = config.retry + 1
  /\ outcome.kind = "TransportFailure"
  /\ outcome.cause \in DeadlineCauses
  /\ response = 0

\* The phase of the specification's state machine a call is in: Building
\* until _do has called the transport, Sending while an attempt is in
\* flight (for a fetch client, until the body is read).
Phase ==
  CASE pc = "Idle" -> "Building"
    [] pc = "Reading" -> "Sending"
    [] OTHER -> pc

PhaseEdges ==
  {<<"Building", "Sending">>, <<"Sending", "Retrying">>,
   <<"Retrying", "Sending">>, <<"Sending", "Decoding">>,
   <<"Decoding", "Done">>, <<"Sending", "Translating">>,
   <<"Translating", "Failed">>}

\* C15, as stated: a call starts in Building and its phase changes only
\* along Building-Sending, Sending-Retrying, Retrying-Sending,
\* Sending-Decoding, Decoding-Done, Sending-Translating and
\* Translating-Failed.
C15_PhaseEdges ==
  /\ Phase = "Building"
  /\ [][Phase' # Phase => <<Phase, Phase'>> \in PhaseEdges]_vars

\* C15, amended: the same edges and Decoding-Failed, the edge a body that
\* does not decode takes; Done and Failed have no outgoing edge.
C15_PhaseEdgesWithDecodeFailure ==
  /\ Phase = "Building"
  /\ [][Phase' # Phase =>
          <<Phase, Phase'>> \in PhaseEdges \cup {<<"Decoding", "Failed">>}]_vars

\* C15's case: a call went from Decoding to Failed.
C15_Witness ==
  /\ variant \in PipelineVariants
  /\ pc = "Failed"
  /\ outcome.kind = "Success"
  /\ result = Throw("InvalidResponse")
  /\ timer.state # "armed"

\* What the rest of _do makes of the outcome o of the last attempt.
ResultOf(v, o) ==
  IF o.kind = "Success" \/ (v = "fetch1" /\ o.kind = "HttpFailure")
  THEN DoReturn(v, o.text).completion
  ELSE DoThrow(v, o)

\* C16: a call that is over has exactly one result, a returned value or a
\* thrown ClientError of one kind, and the result is a function of the
\* outcome of the last attempt.
C16_ExactlyOneResult ==
  Terminal =>
    /\ \/ pc = "Done" /\ result.type = "value"
       \/ pc = "Failed" /\ result.type = "error"
            /\ result.kind \in ClientErrorKinds
    /\ result = ResultOf(variant, outcome)

(***************************************************************************)
(* Several calls in flight on one client.  Each call of _do has its own    *)
(* locals (controller, timeout, response, text) and its own got request;   *)
(* what the calls share is the client, which they only read.  The single   *)
(* call of the variables above stays unmade here.                          *)
(***************************************************************************)
ConcurrentMethods == {"get", "post"}

\* What the transport hands a got client.
ConcurrentOutcomes ==
  {Success(200, TextObject), Success(200, TextOpenBrace),
   HttpFailure(404, TextErrorMessage), HttpFailure(502, TextEmpty),
   TransportFailure("dns"), TransportFailure("responseTimeout")}

\* What the transport hands a fetch client.
ConcurrentStatuses == {200, 404}

ConcurrentTexts == {TextObject, TextOpenBrace}

SingleCallVars ==
  <<req, pc, attempts, outcome, response, timer, result, parses>>

ClientVars == <<variant, config, abortAfter, logger, remote>>

\* Call i becomes c; nothing else changes.
CallBecomes(i, c) ==
  /\ calls' = [calls EXCEPT ![i] = c]
  /\ UNCHANGED <<ClientVars, SingleCallVars>>

\* get(path, query) or post(path, body), up to the first await of _do.
CallEnter(i) ==
  /\ calls[i].pc = "Idle"
  /\ \E method \in ConcurrentMethods :
       CallBecomes(i, [calls[i] EXCEPT
         !.pc = "Sending",
         !.method = method,
         !.attempts = 1,
         !.timer = IF variant \in FetchVariants
                   THEN [state |-> "armed", delay |-> abortAfter]
                   ELSE @])

\* An attempt of got ends; got retries or settles.
CallGotAttemptEnds(i) ==
  /\ variant \in GotVariants
  /\ calls[i].pc = "Sending"
  /\ \E o \in ConcurrentOutcomes :
       CallBecomes(i, [calls[i] EXCEPT
         !.outcome = o,
         !.pc = IF GotRetries(calls[i].method, o, calls[i].attempts - 1,
                              config.retry)
                THEN "Retrying"
                ELSE IF o.kind = "Success" THEN "Decoding"
                ELSE "Translating"])

\* got starts the next attempt.
CallGotRetry(i) ==
  /\ variant \in GotVariants
  /\ calls[i].pc = "Retrying"
  /\ CallBecomes(i, [calls[i] EXCEPT !.pc = "Sending", !.attempts = @ + 1])

\* response = await fetch(uri, options)
CallFetchResolves(i) ==
  /\ variant \in FetchVariants
  /\ calls[i].pc = "Sending"
  /\ \E status \in ConcurrentStatuses :
       CallBecomes(i, [calls[i] EXCEPT !.response = status, !.pc = "Reading"])

\* fetch rejects.
CallFetchRejects(i) ==
  /\ variant \in FetchVariants
  /\ calls[i].pc = "Sending"
  /\ CallBecomes(i, [calls[i] EXCEPT
       !.outcome = TransportFailure("dns"), !.pc = "Translating"])

\* text = await response.text()
CallBodyArrives(i) ==
  /\ variant \in FetchVariants
  /\ calls[i].pc = "Reading"
  /\ \E text \in ConcurrentTexts :
       CallBecomes(i, [calls[i] EXCEPT
         !.outcome = IF ResponseOk(calls[i].response)
                     THEN Success(calls[i].response, text)
                     ELSE HttpFailure(calls[i].response, text),
         !.pc = AfterBody(variant, calls[i].response)])

\* The abort timer of call i fires, with one AbortController kept on the
\* client for all its calls: every call in flight is aborted.
CallTimerFires_SharedController(i) ==
  /\ calls[i].timer.state = "armed"
  /\ calls[i].pc \in {"Sending", "Reading", "Done", "Failed"}
  /\ calls' = [j \in CallIds |->
       LET fired == IF j = i THEN [calls[j] EXCEPT !.timer.state = "fired"]
                    ELSE calls[j] IN
       IF calls[j].pc \in {"Sending", "Reading"}
       THEN [fired EXCEPT !.outcome = TransportFailure("abort"),
                          !.pc = "Translating"]
       ELSE fired]
  /\ UNCHANGED <<ClientVars, SingleCallVars>>

\* The abort timer of call i fires: controller is a local of that call's
\* _do, and abort() rejects that call's fetch or body read only.
CallTimerFires(i) ==
  /\ calls[i].timer.state = "armed"
  /\ calls[i].pc \in {"Sending", "Reading", "Done", "Failed"}
  /\ CallBecomes(i,
       IF calls[i].pc \in {"Sending", "Reading"}
       THEN [calls[i] EXCEPT !.timer.state = "fired",
                             !.outcome = TransportFailure("abort"),
                             !.pc = "Translating"]
       ELSE [calls[i] EXCEPT !.timer.state = "fired"])

\* The transport failed: _do throws.
CallTranslate(i) ==
  /\ calls[i].pc = "Translating"
  /\ CallBecomes(i, [calls[i] EXCEPT
       !.result = DoThrow(variant, calls[i].outcome),
       !.timer = AfterFinally(variant, @),
       !.pc = "Failed"])

\* The body text is there: _do returns it decoded, or throws.
CallDecode(i) ==
  /\ calls[i].pc = "Decoding"
  /\ LET completion == DoReturn(variant, calls[i].outcome.text).completion IN
     CallBecomes(i, [calls[i] EXCEPT
       !.result = completion,
       !.timer = AfterFinally(variant, @),
       !.pc = IF completion.type = "value" THEN "Done" ELSE "Failed"])

ConcurrentRetries == {0, 1}

ConcurrentInit ==
  /\ Init
  /\ config.retry \in ConcurrentRetries

ConcurrentNext ==
  \E i \in CallIds :
    \/ CallEnter(i)
    \/ CallGotAttemptEnds(i)
    \/ CallGotRetry(i)
    \/ CallFetchResolves(i)
    \/ CallFetchRejects(i)
    \/ CallBodyArrives(i)
    \/ CallTimerFires(i)
    \/ CallTranslate(i)
    \/ CallDecode(i)

ConcurrentSpec == ConcurrentInit /\ [][ConcurrentNext]_vars

\* C17: whatever the interleaving of the calls on one client, the result
\* of each call is what the call makes of its own last outcome alone, and
\* a call is aborted by its own abort timer only.
C17_CallsIndependent ==
  \A i \in CallIds :
    /\ calls[i].pc \in {"Done", "Failed"} =>
         calls[i].result = ResultOf(variant, calls[i].outcome)
    /\ calls[i].outcome = TransportFailure("abort") =>
         calls[i].timer.state = "fired"

\* C17's case: one call was aborted by its timer and failed with Timeout
\* while the other, with its own timer still set, went on and returned.
C17_Witness ==
  \E i, j \in CallIds :
    /\ i # j
    /\ calls[i].pc = "Failed"
    /\ calls[i].outcome = TransportFailure("abort")
    /\ calls[i].result = Throw("Timeout")
    /\ calls[j].pc = "Done"
    /\ calls[j].timer.state = "cleared"
    /\ calls[j].result.type = "value"

\* C18: no step of a call changes what the client was constructed with:
\* baseUri, userAgent, the two timeouts, the retry count, and the abort
\* delay a fetch client derives from them.
C18_ConfigFrozen == [][config' = config /\ abortAfter' = abortAfter]_vars

\* C18's case: a put that was retried has failed, and the client still has
\* the retry count the attempts were counted against.
C18_Witness ==
  /\ req.method = "put"
  /\ pc = "Failed"
  /\ config.retry >= 1
  /\ attempts = config.retry + 1
  /\ config.baseUri \in BaseUris
  /\ config.userAgent \in UserAgents

\* C19: whatever the logger does, a call that is over has the result a
\* client with a silent logger makes of the same last outcome.
C19_LoggerChangesNothing ==
  Terminal => result = ResultOf(variant, outcome)

\* What the request _do issues carries: got is given searchParams: query
\* and json: body; a fetch client appends the query if (query) and sets
\* options.body if (body).
Issued ==
  [method |-> req.method,
   query |-> req.query # "undefined",
   body |-> req.body # "undefined"]

\* C20: a call made with get issues a GET that may carry a query and never
\* a body; a call made with post or put issues a POST or PUT that may carry
\* a body and never a query; no call carries both.
C20_VerbFixesSlot ==
  pc # "Idle" =>
    /\ Issued.method \in Methods
    /\ Issued.method = "get" => ~Issued.body
    /\ Issued.method \in {"post", "put"} => ~Issued.query
    /\ ~(Issued.query /\ Issued.body)

\* C20's case: a post with a body and a get with a query are under way.
C20_Witness ==
  /\ pc = "Sending"
  /\ \/ Issued = [method |-> "post", query |-> FALSE, body |-> TRUE]
     \/ Issued = [method |-> "get", query |-> TRUE, body |-> FALSE]
  /\ attempts = 1
  /\ outcome = NoOutcome

(***************************************************************************)
(* The request body on the wire, and a transport that echoes it.  A got    *)
(* client is given json: body and sends JSON.stringify(body); a fetch      *)
(* client sends new URLSearchParams(body), and no body if (body) fails.    *)
(***************************************************************************)
RECURSIVE JSONstringify(_)
RECURSIVE StringifyMembers(_)
RECURSIVE FormEncode(_)
\* JSON.stringify(value), the members of an object in some order.
JSONstringify(value) ==
  CASE value.t = "str" -> <<Quote>> \o value.v \o <<Quote>>
    [] value.t = "num" -> <<value.v>>
    [] value.t = "obj" -> <<"{">> \o StringifyMembers(value.v) \o <<"}">>

StringifyMembers(members) ==
  IF members = {} THEN <<>>
  ELSE LET m == CHOOSE m \in members : TRUE IN
       <<Quote>> \o m[1] \o <<Quote, ":">> \o JSONstringify(m[2])
         \o (IF members = {m} THEN <<>>
             ELSE <<",">> \o StringifyMembers(members \ {m}))

\* String(new URLSearchParams(value)): name=value pairs joined by &, a
\* string or number read as a query string of one name without a value.
FormEncode(value) ==
  CASE value.t = "str" -> value.v \o <<"=">>
    [] value.t = "num" -> <<value.v, "=">>
    [] value.t = "obj" ->
         IF value.v = {} THEN <<>>
         ELSE LET m == CHOOSE m \in value.v : TRUE
                  text == IF m[2].t = "num" THEN <<m[2].v>> ELSE m[2].v
              IN m[1] \o <<"=">> \o text
                   \o (IF value.v = {m} THEN <<>>
                       ELSE <<"&">>
                              \o FormEncode([t |-> "obj", v |-> value.v \ {m}]))

\* The body text variant v sends for the body argument of _do.
WireBody(v, body) ==
  IF v \in GotVariants THEN JSONstringify(body)
  ELSE IF Truthy(body) THEN FormEncode(body)
  ELSE <<>>

\* Bodies handed to post and put: {}, {"a":"b"}, {"a":1}, {"a":"b","c":"d"},
\* "s" and 1.
BodyValues ==
  {EmptyObject,
   [t |-> "obj", v |-> {<<(<<"a">>), [t |-> "str", v |-> <<"b">>]>>}],
   [t |-> "obj", v |-> {<<(<<"a">>), [t |-> "num", v |-> "1"]>>}],
   [t |-> "obj", v |-> {<<(<<"a">>), [t |-> "str", v |-> <<"b">>]>>,
                        <<(<<"c">>), [t |-> "str", v |-> <<"d">>]>>}],
   [t |-> "str", v |-> <<"s">>],
   [t |-> "num", v |-> "1"]}

\* post(path, body) with a body value.
PostValue == \E body \in BodyValues : DoEnter("post", "undefined", body)

\* put(path, body) with a body value.
PutValue ==
  /\ HasPut(variant)
  /\ \E body \in BodyValues : DoEnter("put", "undefined", body)

\* The transport answers 200 with the body it was sent.
GotEchoes == GotAttemptEndsWith(Success(200, WireBody(variant, req.body)))

\* The same for a fetch client: the headers, then the body.
FetchEchoes ==
  /\ variant \in FetchVariants
  /\ \/ /\ pc = "Sending"
        /\ response' = 200
        /\ pc' = "Reading"
        /\ UNCHANGED outcome
     \/ /\ pc = "Reading"
        /\ outcome' = Success(response, WireBody(variant, req.body))
        /\ pc' = AfterBody(variant, response)
        /\ UNCHANGED response
  /\ UNCHANGED <<variant, config, logger, calls, remote, abortAfter, req, attempts,
                 timer, result, parses>>

RoundTripNext ==
  \/ PostValue
  \/ PutValue
  \/ GotEchoes
  \/ FetchEchoes
  \/ Decode

RoundTripSpec == Init /\ [][RoundTripNext]_vars

\* C21: a post or put whose body comes back as the body of a 200 reply
\* returns a value equal to the body it was given.
C21_RoundTrip == Terminal => result = Return(req.body)

(***************************************************************************)
(* Two get calls in sequence against a remote whose state does not         *)
(* change: every attempt of both calls is given the same reply.  The       *)
(* second call is a new activation of _do, with new locals; calls[1]       *)
(* keeps how the first one ended.                                          *)
(***************************************************************************)
\* The first call is over and get is called again.
Again ==
  /\ Terminal
  /\ calls[1] = NoCall
  /\ calls' = [calls EXCEPT ![1] =
       [pc |-> pc, method |-> req.method, attempts |-> attempts,
        outcome |-> outcome, response |-> response, timer |-> timer,
        result |-> result]]
  /\ req' = NoRequest
  /\ pc' = "Idle"
  /\ attempts' = 0
  /\ outcome' = NoOutcome
  /\ response' = 0
  /\ timer' = NoTimer
  /\ result' = NoResult
  /\ parses' = 0
  /\ UNCHANGED <<variant, config, logger, remote, abortAfter>>

\* A step of a get("path", query) call for which the transport has the
\* reply of the remote.
OfSameGet(Step) ==
  /\ Step
  /\ req' # req =>
       req' = [method |-> "get", query |-> "query", body |-> "undefined"]
  /\ outcome' # outcome => outcome' = remote
  /\ response' # response => response' = remote.status

SequentialInit ==
  /\ Constructed
  /\ logger = DefaultLogger
  /\ NoCallYet
  /\ remote \in GotOutcomes

SequentialNext ==
  \/ OfSameGet(Get)
  \/ OfSameGet(GotAttemptEnds)
  \/ OfSameGet(GotRetry)
  \/ OfSameGet(FetchResolves)
  \/ OfSameGet(FetchRejects)
  \/ OfSameGet(BodyArrives)
  \/ OfSameGet(Translate)
  \/ OfSameGet(Decode)
  \/ Again

SequentialSpec == SequentialInit /\ [][SequentialNext]_vars

\* C22: the second of two get calls with the same path and query, given
\* the same reply, ends as the first did: the same value or the same
\* error, after as many attempts.
C22_GetIdempotent ==
  (calls[1].pc \in {"Done", "Failed"} /\ Terminal) =>
    /\ pc = calls[1].pc
    /\ result = calls[1].result
    /\ attempts = calls[1].attempts

\* C22's case: both calls were retried as often as the client allows and
\* failed alike, or both returned the decoded body.
C22_Witness ==
  /\ calls[1].pc \in {"Done", "Failed"}
  /\ Terminal
  /\ result = calls[1].result
  /\ \/ attempts = config.retry + 1 /\ config.retry >= 1 /\ pc = "Failed"
     \/ pc = "Done" /\ outcome.text = TextObject

(***************************************************************************)
(* The deadline of the fetch clients.                                      *)
(***************************************************************************)
\* C23: in the fetch client over BaseClient the abort timer of a call is
\* set to responseTimeout when that is set (not 0) and to requestTimeout
\* otherwise; it is armed as long as the call waits for the headers or
\* reads the body, and when it fires the call is aborted.
C23_OneDeadline ==
  variant = "fetchBase" =>
    /\ timer.state # "unset" =>
         timer.delay = IF config.responseTimeout # 0
                       THEN config.responseTimeout
                       ELSE config.requestTimeout
    /\ pc \in {"Sending", "Reading"} => timer.state = "armed"
    /\ timer.state = "fired" =>
         /\ pc \in {"Translating", "Failed"}
         /\ outcome = TransportFailure("abort")

\* C23's case: no response timeout, a request timeout, and the timer fired
\* while the body of a response was read.
C23_Witness ==
  /\ variant = "fetchBase"
  /\ config.responseTimeout = 0
  /\ config.requestTimeout # 0
  /\ timer = [state |-> "fired", delay |-> config.requestTimeout]
  /\ response # 0
  /\ pc = "Translating"

\* C24: a call on a client built with requestTimeout = 0 and
\* responseTimeout = 0 is not aborted by the client's timer.
C24_ZeroMeansNoDeadline ==
  (config.requestTimeout = 0 /\ config.responseTimeout = 0) =>
    /\ timer.state # "fired"
    /\ outcome # TransportFailure("abort")

(***************************************************************************)
(* Retries.                                                                *)
(***************************************************************************)
\* C25: when an attempt ends in a transport failure and fewer attempts
\* were retried than the client's retry count allows, the call goes on to
\* a further attempt instead of failing.
C25_TransportFailureRetried ==
  [][(/\ outcome' # outcome
      /\ outcome'.kind = "TransportFailure"
      /\ attempts - 1 < config.retry)
     => pc' = "Retrying"]_vars

\* C26: the attempts of a call come one after the other: attempt 1 starts
\* when the call is made, and attempt n+1 starts only from the pause after
\* attempt n has ended with an outcome that is no success; nothing else
\* changes the number of attempts.
C26_AttemptsSequential ==
  [][attempts' # attempts =>
       /\ attempts' = attempts + 1
       /\ pc' = "Sending"
       /\ \/ pc = "Idle" /\ attempts = 0
          \/ /\ pc = "Retrying"
             /\ outcome.kind \in {"TransportFailure", "HttpFailure"}]_vars

\* C26's case: the last attempt the retry count allows is in flight, after
\* the attempts before it have ended.
C26_Witness ==
  /\ variant \in GotVariants
  /\ pc = "Sending"
  /\ attempts = MaxRetry + 1
  /\ outcome.kind = "TransportFailure"

(***************************************************************************)
(* What a call returns, and when it fails with InvalidResponse.            *)
(***************************************************************************)
\* C27: in every variant, a call that has returned a value had a success
\* (2xx) as the outcome of its last attempt.
C27_ValueOnlyOnSuccess == result.type = "value" => outcome.kind = "Success"

\* C28: in the fetch clients that check the status, when the headers of a
\* response that is not 2xx are there and reading its body fails or is
\* aborted by the timer, the call fails with Timeout: the status is not
\* translated.
C28_StalledBodyIsTimeout ==
  (/\ variant \in {"fetchBase", "fetch2"}
   /\ response \in FailureStatuses
   /\ outcome.kind = "TransportFailure") =>
    /\ pc \in {"Translating", "Failed"}
    /\ pc = "Failed" => result = Throw("Timeout")

\* C28's case: a 404 whose body was cut off by the timer.
C28_Witness ==
  /\ variant = "fetchBase"
  /\ response = 404
  /\ outcome = TransportFailure("abort")
  /\ timer.state = "fired"
  /\ result = Throw("Timeout")

\* C29: in the fetch clients that clear their timer, once the body of the
\* response has been read the timer does not fire any more: it is cleared
\* when the call ends, and the result is what status and body give.
C29_TimerLosesRace ==
  (/\ variant \in {"fetchBase", "fetch2"}
   /\ outcome.kind \in {"Success", "HttpFailure"}) =>
    /\ timer.state # "fired"
    /\ Terminal =>
         /\ timer.state = "cleared"
         /\ result = ResultOf(variant, outcome)

\* C29's case: a call that returned the decoded body with its timer, set
\* to a deadline that is not 0, cleared.
C29_Witness ==
  /\ variant \in {"fetchBase", "fetch2"}
  /\ pc = "Done"
  /\ outcome = Success(200, TextObject)
  /\ timer = [state |-> "cleared", delay |-> 2]
  /\ result.type = "value"

\* C30: a call fails with InvalidResponse only when the outcome of its
\* last attempt is a success whose body text is not empty and is no JSON;
\* no transport failure and no HTTP failure, whatever its body, ends in
\* InvalidResponse.
C30_InvalidResponseOnlyOnSuccess ==
  result.kind = "InvalidResponse" =>
    /\ outcome.kind = "Success"
    /\ outcome.text # TextEmpty
    /\ ~JSONparse(outcome.text).ok

\* C30's case: a 200 with the body { fails with InvalidResponse.
C30_Witness ==
  /\ variant = "gotBase"
  /\ pc = "Failed"
  /\ outcome = Success(200, TextOpenBrace)
  /\ result = Throw("InvalidResponse")

====
